---- MODULE Spec2Model ----
(***************************************************************************)
(* Process supervision core of wdpcm (backend index.ts, the version with   *)
(* startBackend/stopBackend, src/desktop/preload.cjs lines 200-599).       *)
(*                                                                         *)
(* The backend is a single-threaded Node.js program: every synchronous     *)
(* handler, and every stretch of an async handler between two awaits, runs *)
(* to completion without interleaving.  Each such stretch is one action.   *)
(* The registry writes and socket events a stretch makes on behalf of a    *)
(* PTY session are appended to that session's `trace`, in source order;    *)
(* a run of consecutive process-data events is recorded as one item.       *)
(*                                                                         *)
(* Spec holds the lifecycle core (start, output, exit, stop).  The other   *)
(* specifications add one group of handlers each to the steps that write   *)
(* the registry: the refused starts (SpecStart), the status query          *)
(* (SpecStatus), the pty-resize event (SpecResize), the termination paths  *)
(* DELETE, stopBackend and beforeExit (SpecTerminate), two defined aliases *)
(* (SpecIsolated), socket connections (SpecSockets, SpecOneSocket), the    *)
(* requests that write the processes table (SpecCrud, SpecUpdate),         *)
(* sessions that outlive the socket server (SpecSink), overlapping stop    *)
(* requests (SpecOverlap), DELETE between starts and exits (SpecDelete)    *)
(* and repeated startBackend/stopBackend calls (SpecBackend).              *)
(*                                                                         *)
(* Two collaborators of the backend are modelled on their own, each in one *)
(* record: the desktop shell (Electron main process, src/unnamed/part_000; *)
(* SpecShell, SpecShellLive) and one browser page of the frontend          *)
(* (src/frontend/src/routes/+page.svelte; SpecPage).                       *)
(***************************************************************************)
EXTENDS Integers, Sequences, FiniteSets, TLC

\* ---------------------------------------------------------------- bounds
MaxSessions == 2      \* PTY sessions spawned in one behaviour
MaxPending  == 1      \* stop handlers suspended on the kill of one session at a time
MaxOverlap  == 2      \* the same, where stop requests for one session overlap
MaxRequests == 2      \* startProcess/stopProcess calls of one page that have not returned

Aliases  == {"a1", "a2"}
Commands == {"cmd1", "cmd2"}
Clients  == {"c1", "c2"}   \* browser pages that may hold a socket connection

\* the alias and command strings a create or update request may carry
AliasInputs   == Aliases \cup {"", "a b", "a\tb"}
CommandInputs == Commands \cup {""}

\* the characters of an alias
Chars(al) ==
    CASE al = ""     -> <<>>
      [] al = "a1"   -> <<"a", "1">>
      [] al = "a2"   -> <<"a", "2">>
      [] al = "a b"  -> <<"a", " ", "b">>
      [] al = "a\tb" -> <<"a", "\t", "b">>

\* alias.includes(ch)
Includes(al, ch) == \E i \in 1..Len(Chars(al)) : Chars(al)[i] = ch
NoDef    == "nodef"   \* getProcessByAlias(alias) === undefined
None     == 0         \* managedProcesses.get(alias) === undefined
Sessions == 1..MaxSessions

VARIABLES
    defs,              \* processes table: alias -> command, or NoDef
    managedProcesses,  \* Map<string, IPty>: alias -> session, or None
    ptyState,          \* per session: "unborn", "live" (spawned, onExit not yet run), "exited"
    ptyAlias,          \* per session: the alias captured by its onData/onExit closures
    stopAwait,         \* per session: stop handlers suspended at `await killPromise(pty.pid)`
    socketServer,      \* socketServer !== null
    httpServer,        \* httpServer !== null
    runtime,           \* runtime !== null
    trace,             \* per session: registry writes and socket events made for it, in order
    killIssued,        \* per session: killPromise(pty.pid) has been called
    ptyDims,           \* per session: <<cols, rows>> of its PTY; <<0, 0>> when it has
                       \* none (not spawned yet, or closed by the exit)
    node,              \* the Node process: "up", "crashed" (an exception escaped a
                       \* handler) or "exited" (the event loop ran empty)
    deleteAwait,       \* per session: DELETE handlers suspended in stopManagedProcess
    shutdownAwait,     \* per session: stopAllManagedProcesses calls suspended on its kill
    ptyKilled,         \* per session: pty.kill('SIGTERM') has been called (shell only)
    signalHandlersRegistered,
    stopCalls,         \* stopBackend calls in flight: the promises each one awaits
    subscribers,       \* the clients whose socket is connected to the socket server
    inbox,             \* per connected client and session: the events its socket
                       \* received, in order (a run of process-data is one item)
    attachedAt,        \* per connected client and session: how many events of the
                       \* session had been emitted when its socket connected
    ptyCommand,        \* per session: the command line its shell was spawned with
    shell,             \* the desktop shell (Electron main process)
    page,              \* one browser page of the frontend (+page.svelte)
    resp               \* the HTTP answer sent by the step just taken, NoResp if it sent none

resizeVars == <<ptyDims, node>>
termVars   == <<deleteAwait, shutdownAwait, ptyKilled, signalHandlersRegistered,
                stopCalls>>
sockVars   == <<subscribers, inbox, attachedAt>>
uiVars     == <<shell, page>>

vars == <<defs, managedProcesses, ptyState, ptyAlias, stopAwait,
          socketServer, httpServer, runtime, trace, killIssued,
          resizeVars, termVars, sockVars, ptyCommand, uiVars, resp>>

\* the state of the backend module
backendVars == <<defs, managedProcesses, ptyState, ptyAlias, stopAwait,
                 socketServer, httpServer, runtime, trace, killIssued,
                 resizeVars, termVars, sockVars, ptyCommand>>

\* ---------------------------------------------------------- desktop shell
Platforms == {"darwin", "linux"}   \* process.platform

\* the module state of the Electron main process when it is loaded.  `boot` is
\* the await at which bootstrap() stands; backendWait and frontendWait name
\* the stopDesktopRuntime call ("bootstrap": the catch of whenReady, "quit":
\* the before-quit handler) that awaits stopBackendRef() or the close callback
\* of the frontend server
ShellInit(p) ==
    [platform |-> p, boot |-> "starting", stopBackendRef |-> "noop",
     backendStopped |-> FALSE, quitting |-> FALSE, frontendServer |-> FALSE,
     mainWindow |-> FALSE, backendWait |-> "none", frontendWait |-> "none",
     stopInvoked |-> 0, closeInvoked |-> 0, app |-> "running"]

\* ------------------------------------------------------------- frontend
\* the `processes` array: per alias the status shown, or Absent when the
\* array has no element for the alias
Absent == "absent"
Lists  == [Aliases -> {Absent, "running", "stopped"}]

\* the aliases of the one process group, in the order startGroup and
\* stopGroup walk them
GroupAliases == <<"a1", "a2">>

\* the state of the page when the component is created: no processes, no
\* pids, no action in progress.  `requests` holds the startProcess and
\* stopProcess calls that have not returned, each with the aliases its
\* startGroup/stopGroup loop has still to visit (`rest`); `last` is the
\* socket event the step just taken handled, and whether its handler threw
NoEvent == [event |-> "none", alias |-> "a1", threw |-> FALSE]

PageInit ==
    [processes |-> [a \in Aliases |-> Absent],
     processPids |-> [a \in Aliases |-> FALSE],
     actionLoading |-> [a \in Aliases |-> FALSE],
     requests |-> <<>>,
     last |-> NoEvent]

\* ------------------------------------------------------------ trace items
Terminal == {"process-exited", "process-stopped"}

\* socketServer?.emit(ev, {alias, ...}): dropped when there is no socket server
Emit(sock, ev) == IF sock THEN <<ev>> ELSE <<>>

\* c.json(body, status)
Answer(req, a, s, c) ==
    [req |-> req, alias |-> a, sid |-> s, status |-> c, body |-> {},
     logged |-> FALSE, size |-> <<0, 0>>, closed |-> {}]
\* the (cols, rows) the step was asked for
Sized(r, d) == [r EXCEPT !.size = d]
\* the same step also called console.error
Logged(r) == [r EXCEPT !.logged = TRUE]
NoResp == Answer("none", "a1", None, 0)

Indices(tr, k) == {i \in 1..Len(tr) : tr[i] = k}
Count(tr, k)   == Cardinality(Indices(tr, k))

\* the trace after the events evs; output that follows output is not repeated
Record(tr, evs) ==
    IF evs = <<"process-data">> /\ tr # <<>> /\ tr[Len(tr)] = "process-data"
    THEN tr ELSE tr \o evs

\* the next session (and pid) node-pty hands out
Unborn  == {s \in Sessions : ptyState[s] = "unborn"}
NextSid == IF Unborn = {} THEN MaxSessions + 1
           ELSE CHOOSE s \in Unborn : \A t \in Unborn : s <= t

Live(s) == ptyState[s] = "live"

NodeUp_Blocked == node = "up" /\ \A s \in Sessions : stopAwait[s] = 0

\* handlers and callbacks run only while the Node process does; a handler
\* suspended at an await leaves the event loop free
NodeUp == node = "up"

NoSize    == <<0, 0>>     \* no PTY
SpawnSize == <<80, 30>>   \* spawn(..., {cols: 80, rows: 30})

\* the socket events among the items of a trace
SocketEvents == {"process-started", "process-data", "process-exited", "process-stopped"}
Emitted(tr) == SelectSeq(tr, LAMBDA x : x \in SocketEvents)

\* a socket that received nothing yet
NoInbox    == [s \in Sessions |-> <<>>]
NoAttached == [s \in Sessions |-> 0]

Broadcast_Unordered(ib, subs, s, evs) ==
    [c \in Clients |-> IF c \in subs THEN [ib[c] EXCEPT ![s] = evs \o @] ELSE ib[c]]

\* socketServer.emit(ev, payload) for session s: the event goes to every
\* socket connected at that moment, after what was sent to it before
Broadcast(ib, subs, s, evs) ==
    [c \in Clients |-> IF c \in subs THEN [ib[c] EXCEPT ![s] = Record(@, evs)] ELSE ib[c]]

\* ------------------------------------------------------------------ Init
\* the module just loaded, the processes table holding the rows d
InitBackend(d) ==
    /\ defs = d
    /\ managedProcesses = [a \in Aliases |-> None]
    /\ ptyState = [s \in Sessions |-> "unborn"]
    /\ ptyAlias = [s \in Sessions |-> "a1"]
    /\ stopAwait = [s \in Sessions |-> 0]
    /\ socketServer = FALSE
    /\ httpServer = FALSE
    /\ runtime = FALSE
    /\ trace = [s \in Sessions |-> <<>>]
    /\ killIssued = [s \in Sessions |-> FALSE]
    /\ ptyDims = [s \in Sessions |-> NoSize]
    /\ node = "up"
    /\ deleteAwait = [s \in Sessions |-> 0]
    /\ shutdownAwait = [s \in Sessions |-> 0]
    /\ ptyKilled = [s \in Sessions |-> FALSE]
    /\ signalHandlersRegistered = FALSE
    /\ stopCalls = <<>>
    /\ subscribers = {}
    /\ inbox = [c \in Clients |-> NoInbox]
    /\ attachedAt = [c \in Clients |-> NoAttached]
    /\ ptyCommand = [s \in Sessions |-> NoDef]
    /\ resp = NoResp

InitWith(d) == InitBackend(d) /\ shell = ShellInit("linux") /\ page = PageInit

\* one alias has a definition, the other has none
Init == InitWith([a \in AliasInputs |-> IF a = "a1" THEN "cmd1" ELSE NoDef])

\* ---------------------------------------------------------- startBackend
StartBackend ==
    /\ NodeUp
    /\ ~runtime
    /\ socketServer' = TRUE
    /\ httpServer' = TRUE
    /\ runtime' = TRUE
    /\ signalHandlersRegistered' = TRUE
    /\ resp' = NoResp
    /\ UNCHANGED <<defs, managedProcesses, ptyState, ptyAlias, stopAwait, trace,
                   killIssued, resizeVars, deleteAwait, shutdownAwait, ptyKilled,
                   stopCalls, sockVars, ptyCommand, uiVars>>

\* called while a runtime exists: `if (runtime) return runtime;`
StartBackendExisting ==
    /\ NodeUp
    /\ runtime
    /\ resp' = Answer("startBackend", "a1", None, 0)
    /\ UNCHANGED <<defs, managedProcesses, ptyState, ptyAlias, stopAwait,
                   socketServer, httpServer, runtime, trace, killIssued,
                   resizeVars, termVars, sockVars, ptyCommand, uiVars>>

\* -------------------------------------------- GET /processes (status)
StatusOf_AlwaysRunning(mp, a) == "running"

StatusOf(mp, a) == IF a \in DOMAIN mp /\ mp[a] # None THEN "running" ELSE "stopped"

NoSearch == ""        \* c.req.query('search') is undefined or empty
Searches == {NoSearch} \cup Aliases

\* aliases of the rows SELECTed: all rows, or those matching LIKE %q%
\* (no command of Commands contains an alias, and no alias another one)
GetAllProcesses(d)    == {a \in DOMAIN d : d[a] # NoDef}
SearchProcesses(d, q) == {a \in GetAllProcesses(d) : a = q}

\* the rows of the answer, each with the status computed from the registry
WithStatus(rows, mp) == {<<a, StatusOf(mp, a)>> : a \in rows}

ListProcesses(q) ==
    /\ NodeUp
    /\ httpServer
    /\ LET processes == IF q # NoSearch THEN SearchProcesses(defs, q)
                        ELSE GetAllProcesses(defs)
       IN resp' = [Answer("list", q, None, 200)
                       EXCEPT !.body = WithStatus(processes, managedProcesses)]
    /\ UNCHANGED <<defs, managedProcesses, ptyState, ptyAlias, stopAwait,
                   socketServer, httpServer, runtime, trace, killIssued,
                   resizeVars, termVars,
                   sockVars, ptyCommand, uiVars>>

\* ------------------------------------------ POST /processes/start/:alias
GetProcessByAlias_Default(d, a) == IF d[a] = NoDef THEN "cmd1" ELSE d[a]

GetProcessByAlias_Stale(d, a) == IF d[a] = NoDef THEN NoDef ELSE "cmd1"

\* the row of the processes table for alias, NoDef when there is none
GetProcessByAlias(d, a) == d[a]

\* registry after managedProcesses.set(alias, pty)
RegistrySet(mp, a, s) == [mp EXCEPT ![a] = s]

\* effects of the handler once spawn returned, in source order
StartEffects_EmitFirst(sock) == Emit(sock, "process-started") \o <<"spawn", "set">>

StartEffects(sock) == <<"spawn", "set">> \o Emit(sock, "process-started")

StartNotFound(a) ==
    /\ NodeUp
    /\ httpServer
    /\ GetProcessByAlias(defs, a) = NoDef
    /\ resp' = Answer("start", a, None, 404)
    /\ UNCHANGED <<defs, managedProcesses, ptyState, ptyAlias, stopAwait,
                   socketServer, httpServer, runtime, trace, killIssued,
                   resizeVars, termVars,
                   sockVars, ptyCommand, uiVars>>

StartSpawnFailed_NoRollback(a) ==
    /\ NodeUp
    /\ httpServer
    /\ GetProcessByAlias(defs, a) # NoDef
    /\ NextSid <= MaxSessions
    /\ managedProcesses' = RegistrySet(managedProcesses, a, NextSid)
    /\ resp' = Answer("start", a, None, 500)
    /\ UNCHANGED <<defs, ptyState, ptyAlias, stopAwait,
                   socketServer, httpServer, runtime, trace, killIssued,
                   resizeVars, termVars,
                   sockVars, ptyCommand, uiVars>>

StartSpawnFailed_Retry(a) ==
    /\ NodeUp
    /\ httpServer
    /\ GetProcessByAlias(defs, a) # NoDef
    /\ NextSid <= MaxSessions
    /\ LET s == NextSid IN
        /\ ptyState' = [ptyState EXCEPT ![s] = "live"]
        /\ ptyAlias' = [ptyAlias EXCEPT ![s] = a]
        /\ managedProcesses' = RegistrySet(managedProcesses, a, s)
        /\ trace' = [trace EXCEPT ![s] = <<"spawn", "set">>]
        /\ ptyDims' = [ptyDims EXCEPT ![s] = SpawnSize]
        /\ ptyCommand' = [ptyCommand EXCEPT ![s] = GetProcessByAlias(defs, a)]
    /\ resp' = Answer("start", a, None, 500)
    /\ UNCHANGED <<defs, stopAwait, socketServer, httpServer, runtime, killIssued,
                   node, termVars, sockVars, uiVars>>

\* spawn() throws: the handler is left before anything is registered
StartSpawnFailed(a) ==
    /\ NodeUp
    /\ httpServer
    /\ GetProcessByAlias(defs, a) # NoDef
    /\ resp' = Answer("start", a, None, 500)
    /\ UNCHANGED <<defs, managedProcesses, ptyState, ptyAlias, stopAwait,
                   socketServer, httpServer, runtime, trace, killIssued,
                   resizeVars, termVars,
                   sockVars, ptyCommand, uiVars>>

StartSpawned(a) ==
    /\ NodeUp
    /\ httpServer
    /\ GetProcessByAlias(defs, a) # NoDef
    /\ NextSid <= MaxSessions
    /\ LET s == NextSid IN
        /\ ptyState' = [ptyState EXCEPT ![s] = "live"]
        /\ ptyAlias' = [ptyAlias EXCEPT ![s] = a]
        /\ managedProcesses' = RegistrySet(managedProcesses, a, s)
        /\ trace' = [trace EXCEPT ![s] = Record(@, StartEffects(socketServer))]
        /\ ptyDims' = [ptyDims EXCEPT ![s] = SpawnSize]
        /\ ptyCommand' = [ptyCommand EXCEPT ![s] = GetProcessByAlias(defs, a)]
        /\ inbox' = Broadcast(inbox, subscribers, s, Emit(socketServer, "process-started"))
        /\ resp' = Answer("start", a, s, 200)
    /\ UNCHANGED <<defs, stopAwait, socketServer, httpServer, runtime, killIssued,
                   node, termVars, subscribers, attachedAt, uiVars>>

\* ------------------------------------------------------------ pty.onData
OnData(s) ==
    /\ NodeUp
    /\ Live(s)
    /\ trace' = [trace EXCEPT ![s] = Record(@, Emit(socketServer, "process-data"))]
    /\ inbox' = Broadcast(inbox, subscribers, s, Emit(socketServer, "process-data"))
    /\ resp' = NoResp
    /\ UNCHANGED <<defs, managedProcesses, ptyState, ptyAlias, stopAwait,
                   socketServer, httpServer, runtime, killIssued,
                   resizeVars, termVars, subscribers, attachedAt, ptyCommand, uiVars>>

\* ------------------------------------------------------------ pty.onExit
RegistryDelete_Noop(mp, a) == mp

RegistryDelete_Clear(mp, a) == [x \in Aliases |-> None]

\* registry after managedProcesses.delete(alias)
RegistryDelete(mp, a) == [mp EXCEPT ![a] = None]

OnExitRegistry_NoDelete(mp, a) == mp

\* registry after the onExit callback of a session of alias a
OnExitRegistry(mp, a) == RegistryDelete(mp, a)

OnExitEffects_NeedsSink(sock) ==
    IF sock THEN <<"process-exited", "delete">> ELSE <<>>

\* effects of the onExit callback, in source order
OnExitEffects(sock) == Emit(sock, "process-exited") \o <<"delete">>

OnExit(s) ==
    /\ NodeUp
    /\ Live(s)
    /\ ptyState' = [ptyState EXCEPT ![s] = "exited"]
    /\ trace' = [trace EXCEPT ![s] = Record(@, OnExitEffects(socketServer))]
    /\ managedProcesses' = OnExitRegistry(managedProcesses, ptyAlias[s])
    /\ ptyDims' = [ptyDims EXCEPT ![s] = NoSize]
    /\ inbox' = Broadcast(inbox, subscribers, s, Emit(socketServer, "process-exited"))
    /\ resp' = NoResp
    /\ UNCHANGED <<defs, ptyAlias, stopAwait, socketServer, httpServer, runtime, killIssued,
                   node, termVars, subscribers, attachedAt, ptyCommand, uiVars>>

\* ------------------------------------------------- stopManagedProcess
\* killPromise(pty.pid) was called (tree-kill: the shell and its descendants)
IssueKill(k, S) == [s \in Sessions |-> k[s] \/ s \in S]

\* the sessions the registry holds
Registered(mp) == {mp[a] : a \in Aliases} \ {None}

\* ------------------------------------------- POST /processes/stop/:alias
\* up to the first suspension: the lookup, then the early return or the kill
StopNotRunning(a) ==
    /\ NodeUp
    /\ httpServer
    /\ managedProcesses[a] = None
    /\ resp' = Answer("stop", a, None, 200)
    /\ UNCHANGED <<defs, managedProcesses, ptyState, ptyAlias, stopAwait,
                   socketServer, httpServer, runtime, trace, killIssued,
                   resizeVars, termVars,
                   sockVars, ptyCommand, uiVars>>

\* n caps the handlers suspended on one session
StopIssueKillUpTo(a, n) ==
    /\ NodeUp
    /\ httpServer
    /\ managedProcesses[a] # None
    /\ LET s == managedProcesses[a] IN
        /\ stopAwait[s] < n
        /\ stopAwait' = [stopAwait EXCEPT ![s] = @ + 1]
        /\ killIssued' = IssueKill(killIssued, {s})
    /\ resp' = NoResp
    /\ UNCHANGED <<defs, managedProcesses, ptyState, ptyAlias,
                   socketServer, httpServer, runtime, trace, resizeVars, termVars,
                   sockVars, ptyCommand, uiVars>>

StopIssueKill(a) == StopIssueKillUpTo(a, MaxPending)

\* effects of the handler after killPromise resolved
StopResolvedEffects(sock) == <<"delete">> \o Emit(sock, "process-stopped")

StopKillResolved(s) ==
    /\ NodeUp
    /\ stopAwait[s] > 0
    /\ stopAwait' = [stopAwait EXCEPT ![s] = @ - 1]
    /\ trace' = [trace EXCEPT ![s] = Record(@, StopResolvedEffects(socketServer))]
    /\ managedProcesses' = RegistryDelete(managedProcesses, ptyAlias[s])
    /\ inbox' = Broadcast(inbox, subscribers, s, Emit(socketServer, "process-stopped"))
    /\ resp' = Answer("stop", ptyAlias[s], s, 200)
    /\ UNCHANGED <<defs, ptyState, ptyAlias, socketServer, httpServer, runtime, killIssued,
                   resizeVars, termVars, subscribers, attachedAt, ptyCommand, uiVars>>

\* killPromise rejected: console.error and the answer 500; nothing else
StopKillRejected(s) ==
    /\ NodeUp
    /\ stopAwait[s] > 0
    /\ stopAwait' = [stopAwait EXCEPT ![s] = @ - 1]
    /\ resp' = Logged(Answer("stop", ptyAlias[s], s, 500))
    /\ UNCHANGED <<defs, managedProcesses, ptyState, ptyAlias,
                   socketServer, httpServer, runtime, trace, killIssued,
                   resizeVars, termVars,
                   sockVars, ptyCommand, uiVars>>

\* ------------------------------------------- socket event 'pty-resize'
\* sizes a client may send; node-pty throws on a size that is not positive
Sizes == {SpawnSize, <<120, 40>>}
BadSizes == {<<0, 0>>}

\* the handler has no answer channel: `resp` only names the handler that ran
ResizeIgnored_NoGuard(a, d) ==
    /\ NodeUp
    /\ socketServer
    /\ managedProcesses[a] = None
    /\ resp' = Logged(Sized(Answer("resize", a, None, 0), d))
    /\ UNCHANGED <<defs, managedProcesses, ptyState, ptyAlias, stopAwait,
                   socketServer, httpServer, runtime, trace, killIssued,
                   resizeVars, termVars,
                   sockVars, ptyCommand, uiVars>>

\* no entry for the alias: the early return
ResizeIgnored(a, d) ==
    /\ NodeUp
    /\ socketServer
    /\ managedProcesses[a] = None
    /\ resp' = Sized(Answer("resize", a, None, 0), d)
    /\ UNCHANGED <<defs, managedProcesses, ptyState, ptyAlias, stopAwait,
                   socketServer, httpServer, runtime, trace, killIssued,
                   resizeVars, termVars,
                   sockVars, ptyCommand, uiVars>>

ResizeApplied_Deferred(a, d) ==
    /\ NodeUp
    /\ socketServer
    /\ managedProcesses[a] # None
    /\ d \in Sizes
    /\ resp' = Sized(Answer("resize", a, managedProcesses[a], 0), d)
    /\ UNCHANGED <<defs, managedProcesses, ptyState, ptyAlias, stopAwait,
                   socketServer, httpServer, runtime, trace, killIssued,
                   resizeVars, termVars, sockVars, ptyCommand, uiVars>>

\* pty.resize(cols, rows) returned
ResizeApplied(a, d) ==
    /\ NodeUp
    /\ socketServer
    /\ managedProcesses[a] # None
    /\ d \in Sizes
    /\ LET s == managedProcesses[a] IN
        /\ ptyDims' = [ptyDims EXCEPT ![s] = d]
        /\ resp' = Sized(Answer("resize", a, s, 0), d)
    /\ UNCHANGED <<defs, managedProcesses, ptyState, ptyAlias, stopAwait,
                   socketServer, httpServer, runtime, trace, killIssued,
                   node, termVars,
                   sockVars, ptyCommand, uiVars>>

ResizeCatch_Rethrow(n) == "crashed"

\* catch (error) { console.error(error) }: the exception goes no further
ResizeCatch(n) == n

\* pty.resize threw: the size is not positive, or the process is already
\* gone while its onExit callback has not run yet (the entry is still there)
ResizeThrew(a, d) ==
    /\ NodeUp
    /\ socketServer
    /\ managedProcesses[a] # None
    /\ node' = ResizeCatch(node)
    /\ resp' = Logged(Sized(Answer("resize", a, managedProcesses[a], 0), d))
    /\ UNCHANGED <<defs, managedProcesses, ptyState, ptyAlias, stopAwait,
                   socketServer, httpServer, runtime, trace, killIssued,
                   ptyDims, termVars,
                   sockVars, ptyCommand, uiVars>>

\* -------------------------------------------------- POST /processes
\* createProcess(alias, command): INSERT INTO processes
CreateProcess(d, al, cmd) == [d EXCEPT ![al] = cmd]

\* the checks of the handler in source order, then the insert
CreateDefinition(al, cmd) ==
    /\ NodeUp
    /\ httpServer
    /\ IF al = "" \/ cmd = ""
         THEN resp' = Answer("create", al, None, 400) /\ defs' = defs
       ELSE IF Includes(al, " ")
         THEN resp' = Answer("create", al, None, 400) /\ defs' = defs
       ELSE IF GetProcessByAlias(defs, al) # NoDef
         THEN resp' = Answer("create", al, None, 409) /\ defs' = defs
       ELSE /\ defs' = CreateProcess(defs, al, cmd)
            /\ resp' = Answer("create", al, None, 201)
    /\ UNCHANGED <<managedProcesses, ptyState, ptyAlias, stopAwait,
                   socketServer, httpServer, runtime, trace, killIssued,
                   resizeVars, termVars, sockVars, ptyCommand, uiVars>>

\* ---------------------------------------------- PUT /processes/:alias
\* updateProcess(alias, command): UPDATE processes SET command
UpdateProcess(d, al, cmd) == [d EXCEPT ![al] = cmd]

UpdateDefinition(al, cmd) ==
    /\ NodeUp
    /\ httpServer
    /\ IF cmd = ""
         THEN resp' = Answer("update", al, None, 400) /\ defs' = defs
       ELSE IF GetProcessByAlias(defs, al) = NoDef
         THEN resp' = Answer("update", al, None, 404) /\ defs' = defs
       ELSE /\ defs' = UpdateProcess(defs, al, cmd)
            /\ resp' = Answer("update", al, None, 200)
    /\ UNCHANGED <<managedProcesses, ptyState, ptyAlias, stopAwait,
                   socketServer, httpServer, runtime, trace, killIssued,
                   resizeVars, termVars, sockVars, ptyCommand, uiVars>>

\* ------------------------------------------- socket server 'connection'
Connect_Replay(c) ==
    /\ NodeUp
    /\ socketServer
    /\ c \notin subscribers
    /\ subscribers' = subscribers \cup {c}
    /\ inbox' = [inbox EXCEPT ![c] = [s \in Sessions |-> Emitted(trace[s])]]
    /\ attachedAt' = [attachedAt EXCEPT ![c] = [s \in Sessions |-> Len(Emitted(trace[s]))]]
    /\ resp' = NoResp
    /\ UNCHANGED <<defs, managedProcesses, ptyState, ptyAlias, stopAwait,
                   socketServer, httpServer, runtime, trace, killIssued,
                   resizeVars, termVars, ptyCommand, uiVars>>

\* a client's socket connects: the handler registers the pty-resize listener
\* on it and does nothing else; the new socket has received nothing
Connect(c) ==
    /\ NodeUp
    /\ socketServer
    /\ c \notin subscribers
    /\ subscribers' = subscribers \cup {c}
    /\ inbox' = [inbox EXCEPT ![c] = NoInbox]
    /\ attachedAt' = [attachedAt EXCEPT ![c] = [s \in Sessions |-> Len(Emitted(trace[s]))]]
    /\ resp' = NoResp
    /\ UNCHANGED <<defs, managedProcesses, ptyState, ptyAlias, stopAwait,
                   socketServer, httpServer, runtime, trace, killIssued,
                   resizeVars, termVars, ptyCommand, uiVars>>

Disconnect_KillsUnwatched(c) ==
    /\ NodeUp
    /\ c \in subscribers
    /\ subscribers' = subscribers \ {c}
    /\ inbox' = [inbox EXCEPT ![c] = NoInbox]
    /\ attachedAt' = [attachedAt EXCEPT ![c] = NoAttached]
    /\ killIssued' = IF subscribers' = {}
                      THEN IssueKill(killIssued, Registered(managedProcesses))
                      ELSE killIssued
    /\ resp' = NoResp
    /\ UNCHANGED <<defs, managedProcesses, ptyState, ptyAlias, stopAwait,
                   socketServer, httpServer, runtime, trace,
                   resizeVars, termVars, ptyCommand, uiVars>>

\* a client's socket disconnects (page closed, network lost): the backend
\* registers no 'disconnect' listener, the socket is simply gone
Disconnect(c) ==
    /\ NodeUp
    /\ c \in subscribers
    /\ subscribers' = subscribers \ {c}
    /\ inbox' = [inbox EXCEPT ![c] = NoInbox]
    /\ attachedAt' = [attachedAt EXCEPT ![c] = NoAttached]
    /\ resp' = NoResp
    /\ UNCHANGED <<defs, managedProcesses, ptyState, ptyAlias, stopAwait,
                   socketServer, httpServer, runtime, trace, killIssued,
                   resizeVars, termVars, ptyCommand, uiVars>>

\* deleteProcess(alias): the table afterwards, and whether a row was removed
DeleteProcess(d, a) == [d EXCEPT ![a] = NoDef]
DeleteAnswer(d, a, s) ==
    IF d[a] = NoDef THEN Answer("delete", a, s, 404) ELSE Answer("delete", a, s, 200)

\* ------------------------------------------- DELETE /processes/:alias
\* the alias is not running: stopManagedProcess returns at once
DeleteNotRunning(a) ==
    /\ NodeUp
    /\ httpServer
    /\ managedProcesses[a] = None
    /\ defs' = DeleteProcess(defs, a)
    /\ resp' = DeleteAnswer(defs, a, None)
    /\ UNCHANGED <<managedProcesses, ptyState, ptyAlias, stopAwait,
                   socketServer, httpServer, runtime, trace, killIssued,
                   resizeVars, termVars,
                   sockVars, ptyCommand, uiVars>>

\* the alias is running: up to `await killPromise(pty.pid)`
DeleteIssueKill(a) ==
    /\ NodeUp
    /\ httpServer
    /\ managedProcesses[a] # None
    /\ LET s == managedProcesses[a] IN
        /\ deleteAwait[s] < MaxPending
        /\ deleteAwait' = [deleteAwait EXCEPT ![s] = @ + 1]
        /\ killIssued' = IssueKill(killIssued, {s})
    /\ resp' = NoResp
    /\ UNCHANGED <<defs, managedProcesses, ptyState, ptyAlias, stopAwait,
                   socketServer, httpServer, runtime, trace, resizeVars,
                   shutdownAwait, ptyKilled, signalHandlersRegistered,
                   stopCalls, sockVars, ptyCommand, uiVars>>

\* the kill reported (a rejection is only logged): finally the entry is
\* deleted, then the definition
DeleteKillSettled(s, rejected) ==
    /\ NodeUp
    /\ deleteAwait[s] > 0
    /\ deleteAwait' = [deleteAwait EXCEPT ![s] = @ - 1]
    /\ managedProcesses' = RegistryDelete(managedProcesses, ptyAlias[s])
    /\ trace' = [trace EXCEPT ![s] = Record(@, <<"delete">>)]
    /\ defs' = DeleteProcess(defs, ptyAlias[s])
    /\ resp' = IF rejected THEN Logged(DeleteAnswer(defs, ptyAlias[s], s))
                ELSE DeleteAnswer(defs, ptyAlias[s], s)
    /\ UNCHANGED <<ptyState, ptyAlias, stopAwait, socketServer, httpServer,
                   runtime, killIssued, resizeVars,
                   shutdownAwait, ptyKilled, signalHandlersRegistered,
                   stopCalls, sockVars, ptyCommand, uiVars>>

\* ------------------------------------------------------------ stopBackend
Servers == {"socket", "http"}

\* what one stopBackend call awaits with Promise.allSettled: the kill of every
\* session the registry held (`targets`; `kills` are those not yet reported)
\* and the close callbacks of both servers
StopCall(mp) == [targets |-> Registered(mp), kills |-> Registered(mp), closes |-> Servers]

Settled(c) == c.kills = {} /\ c.closes = {}

\* the calls in flight once call i has become c: a call whose promises have
\* all settled returns
AfterSettle(calls, i, c) ==
    IF Settled(c)
    THEN SubSeq(calls, 1, i - 1) \o SubSeq(calls, i + 1, Len(calls))
    ELSE [calls EXCEPT ![i] = c]

\* the servers no stopBackend call is still closing
Closed(calls) == Servers \ UNION {calls[i].closes : i \in DOMAIN calls}

\* the step on which a stopBackend call returns: the sessions the registry
\* held when it was called, and the servers that are closed by now
StopReturned(req, targets, closed) ==
    [Answer(req, "a1", None, 0) EXCEPT !.body = targets, !.closed = closed]
\* ... after its promises settled (it closed the servers it found)
StopOutcome(c) ==
    IF Settled(c)
    THEN StopReturned("stopBackend-settled", c.targets, Servers \ c.closes)
    ELSE NoResp

StopBackendNoRuntime_Again ==
    /\ NodeUp
    /\ ~runtime
    /\ killIssued' = IssueKill(killIssued, Registered(managedProcesses))
    /\ shutdownAwait' = [s \in Sessions |->
                            IF s \in Registered(managedProcesses)
                            THEN shutdownAwait[s] + 1 ELSE shutdownAwait[s]]
    /\ stopCalls' = Append(stopCalls, StopCall(managedProcesses))
    /\ resp' = StopReturned("stopBackend", Registered(managedProcesses),
                             Closed(stopCalls))
    /\ UNCHANGED <<defs, managedProcesses, ptyState, ptyAlias, stopAwait,
                   socketServer, httpServer, runtime, trace,
                   resizeVars, deleteAwait, ptyKilled, signalHandlersRegistered,
                   sockVars, ptyCommand, uiVars>>

\* called while no runtime exists: `if (!runtime) return;` (the call returns
\* on the spot)
StopBackendNoRuntime ==
    /\ NodeUp
    /\ ~runtime
    /\ resp' = StopReturned("stopBackend", Registered(managedProcesses),
                             Closed(stopCalls))
    /\ UNCHANGED <<defs, managedProcesses, ptyState, ptyAlias, stopAwait,
                   socketServer, httpServer, runtime, trace, killIssued,
                   resizeVars, termVars, sockVars, ptyCommand, uiVars>>

\* the synchronous part: runtime = null, a kill for every registered session
\* (stopAllManagedProcesses), and both server variables set to null; closing
\* the socket server disconnects every socket
StopBackend ==
    /\ NodeUp
    /\ runtime
    /\ \A s \in Registered(managedProcesses) : shutdownAwait[s] < MaxPending
    /\ Len(stopCalls) < MaxPending
    /\ stopCalls' = Append(stopCalls, StopCall(managedProcesses))
    /\ runtime' = FALSE
    /\ killIssued' = IssueKill(killIssued, Registered(managedProcesses))
    /\ shutdownAwait' = [s \in Sessions |->
                            IF s \in Registered(managedProcesses)
                            THEN shutdownAwait[s] + 1 ELSE shutdownAwait[s]]
    /\ socketServer' = FALSE
    /\ httpServer' = FALSE
    /\ subscribers' = {}
    /\ inbox' = [c \in Clients |-> NoInbox]
    /\ attachedAt' = [c \in Clients |-> NoAttached]
    /\ resp' = NoResp
    /\ UNCHANGED <<defs, managedProcesses, ptyState, ptyAlias, stopAwait, trace,
                   resizeVars, deleteAwait, ptyKilled, signalHandlersRegistered,
                   ptyCommand, uiVars>>

\* a kill of stopAllManagedProcesses reported: finally the entry is deleted
ShutdownKillSettled(s, rejected) ==
    /\ NodeUp
    /\ shutdownAwait[s] > 0
    /\ shutdownAwait' = [shutdownAwait EXCEPT ![s] = @ - 1]
    /\ managedProcesses' = RegistryDelete(managedProcesses, ptyAlias[s])
    /\ trace' = [trace EXCEPT ![s] = Record(@, <<"delete">>)]
    /\ \E i \in DOMAIN stopCalls :
          /\ s \in stopCalls[i].kills
          /\ LET c == [stopCalls[i] EXCEPT !.kills = @ \ {s}] IN
              /\ stopCalls' = AfterSettle(stopCalls, i, c)
              /\ resp' = IF rejected THEN Logged(StopOutcome(c)) ELSE StopOutcome(c)
    /\ UNCHANGED <<defs, ptyState, ptyAlias, stopAwait, socketServer, httpServer,
                   runtime, killIssued, resizeVars,
                   deleteAwait, ptyKilled, signalHandlersRegistered,
                   sockVars, ptyCommand, uiVars>>

\* the close callback of a server that stopBackend is closing
ServerClosed(x) ==
    /\ NodeUp
    /\ \E i \in DOMAIN stopCalls :
          /\ x \in stopCalls[i].closes
          /\ LET c == [stopCalls[i] EXCEPT !.closes = @ \ {x}] IN
              /\ stopCalls' = AfterSettle(stopCalls, i, c)
              /\ resp' = StopOutcome(c)
    /\ UNCHANGED <<defs, managedProcesses, ptyState, ptyAlias, stopAwait,
                   socketServer, httpServer, runtime, trace, killIssued,
                   resizeVars, deleteAwait, shutdownAwait, ptyKilled,
                   signalHandlersRegistered, sockVars, ptyCommand, uiVars>>

\* ------------------------------------------------- process.on('beforeExit')
\* Node emits beforeExit when nothing keeps the event loop alive: no
\* listening server, no open PTY, no handler waiting for a kill to report
EventLoopEmpty ==
    /\ ~httpServer /\ ~socketServer
    /\ stopCalls = <<>>
    /\ \A s \in Sessions :
          /\ ~Live(s)
          /\ stopAwait[s] = 0 /\ deleteAwait[s] = 0 /\ shutdownAwait[s] = 0

\* pty.kill('SIGTERM') for every entry, then managedProcesses.clear(); the
\* handler schedules nothing, so the process ends
BeforeExit ==
    /\ NodeUp
    /\ signalHandlersRegistered
    /\ EventLoopEmpty
    /\ ptyKilled' = [s \in Sessions |->
                        ptyKilled[s] \/ s \in Registered(managedProcesses)]
    /\ trace' = [s \in Sessions |->
                    IF s \in Registered(managedProcesses)
                    THEN Record(trace[s], <<"delete">>) ELSE trace[s]]
    /\ managedProcesses' = [a \in Aliases |-> None]
    /\ node' = "exited"
    /\ resp' = NoResp
    /\ UNCHANGED <<defs, ptyState, ptyAlias, stopAwait, socketServer, httpServer,
                   runtime, killIssued, ptyDims,
                   deleteAwait, shutdownAwait, signalHandlersRegistered,
                   stopCalls, sockVars, ptyCommand, uiVars>>

\* ---------------------------------------------------------- desktop shell
\* stopBackendRuntime() up to its await, called by the stopDesktopRuntime call
\* `by`: the default stopBackendRef is an empty async function, whose promise
\* is already resolved
StopBackendRuntime_NoFlag(sh, by) ==
    [sh EXCEPT !.backendStopped = TRUE,
               !.stopInvoked = @ + 1,
               !.backendWait = IF sh.stopBackendRef = "real" THEN by ELSE @]

StopBackendRuntime(sh, by) ==
    IF sh.backendStopped THEN sh
    ELSE [sh EXCEPT !.backendStopped = TRUE,
                    !.stopInvoked = @ + 1,
                    !.backendWait = IF sh.stopBackendRef = "real" THEN by ELSE @]

\* stopFrontendServer() up to its await
StopFrontendServer(sh, by) ==
    IF ~sh.frontendServer THEN sh
    ELSE [sh EXCEPT !.frontendServer = FALSE,
                    !.closeInvoked = @ + 1,
                    !.frontendWait = by]

\* stopDesktopRuntime(): both routines are called before the first await
StopDesktopRuntime(sh, by) == StopFrontendServer(StopBackendRuntime(sh, by), by)

\* Promise.allSettled of the call `by` has not resolved yet
Waiting(sh, by) == sh.backendWait = by \/ sh.frontendWait = by

AppExit(sh) == [sh EXCEPT !.app = "exited"]

\* app.on('before-quit'): a later event, while quitting, is not prevented and
\* Electron goes on to quit; the first one stops the runtime and then, in
\* finally, calls app.exit(0)
BeforeQuitHandler(sh) ==
    IF sh.quitting THEN AppExit(sh)
    ELSE LET stopping == StopDesktopRuntime([sh EXCEPT !.quitting = TRUE], "quit") IN
         IF Waiting(stopping, "quit") THEN stopping ELSE AppExit(stopping)

\* app.quit() emits before-quit
AppQuit(sh) == BeforeQuitHandler(sh)

\* the code after `await stopDesktopRuntime()` of the call `by`, once nothing
\* it awaits is outstanding
Resume(sh, by) ==
    IF Waiting(sh, by) THEN sh
    ELSE IF by = "quit" THEN AppExit(sh)
    ELSE AppQuit([sh EXCEPT !.boot = "over"])

\* bootstrap(): startBackendRuntime() succeeded and createMainWindow() has
\* created the frontend server and awaits its listen callback
BootBackendStarted ==
    /\ shell.app = "running" /\ shell.boot = "starting"
    /\ shell' = [shell EXCEPT !.boot = "listening", !.stopBackendRef = "real",
                              !.frontendServer = TRUE]
    /\ resp' = NoResp
    /\ UNCHANGED <<backendVars, page>>

\* the frontend server listens: the window is created and loadURL awaited
\* (frontendServer.address() throws if the server was closed meanwhile)
BootListening ==
    /\ shell.app = "running" /\ shell.boot = "listening" /\ shell.frontendServer
    /\ shell' = [shell EXCEPT !.boot = "loading", !.mainWindow = TRUE]
    /\ resp' = NoResp
    /\ UNCHANGED <<backendVars, page>>

BootLoaded ==
    /\ shell.app = "running" /\ shell.boot = "loading"
    /\ shell' = [shell EXCEPT !.boot = "ready"]
    /\ resp' = NoResp
    /\ UNCHANGED <<backendVars, page>>

\* bootstrap() throws: the catch of whenReady shows the error, stops the
\* runtime and calls app.quit().  Before its first await it can throw in
\* startBackendRuntime() or, the backend `started`, in startFrontendServer()
\* before the server is created
BootFailed(started) ==
    /\ shell.app = "running" /\ shell.boot \in {"starting", "listening", "loading"}
    /\ started = (shell.boot # "starting" \/ started)
    /\ shell' = Resume(StopDesktopRuntime(
                           [shell EXCEPT !.boot = "failed",
                                         !.stopBackendRef = IF started THEN "real" ELSE @],
                           "bootstrap"),
                       "bootstrap")
    /\ resp' = NoResp
    /\ UNCHANGED <<backendVars, page>>

\* the user quits the application
BeforeQuit ==
    /\ shell.app = "running"
    /\ shell' = BeforeQuitHandler(shell)
    /\ resp' = NoResp
    /\ UNCHANGED <<backendVars, page>>

\* app.on('window-all-closed')
WindowAllClosed ==
    /\ shell.app = "running" /\ shell.mainWindow
    /\ shell' = LET closed == [shell EXCEPT !.mainWindow = FALSE] IN
                IF shell.platform # "darwin" THEN AppQuit(closed) ELSE closed
    /\ resp' = NoResp
    /\ UNCHANGED <<backendVars, page>>

\* the promise of stopBackendRef() settles; a rejection is absorbed by
\* Promise.allSettled
BackendStopSettled(rejected) ==
    /\ shell.app = "running" /\ shell.backendWait # "none"
    /\ shell' = Resume([shell EXCEPT !.backendWait = "none"], shell.backendWait)
    /\ resp' = NoResp
    /\ UNCHANGED <<backendVars, page>>

\* serverToClose.close(() => resolve()) of the frontend server
FrontendClosed ==
    /\ shell.app = "running" /\ shell.frontendWait # "none"
    /\ shell' = Resume([shell EXCEPT !.frontendWait = "none"], shell.frontendWait)
    /\ resp' = NoResp
    /\ UNCHANGED <<backendVars, page>>

\* ------------------------------------------------------------- frontend
\* startProcess(alias) / stopProcess(alias) up to the first await: the flag
\* is set; startProcess first waits for the log viewer when it has to open
\* it (`opening`), otherwise the fetch is sent
BeginRequest(pg, a, op, rest, opening) ==
    [pg EXCEPT !.actionLoading[a] = TRUE,
               !.requests = Append(@, [alias |-> a, op |-> op, rest |-> rest,
                                       phase |-> IF op = "start" /\ opening
                                                 THEN "opening" ELSE "fetch"])]

\* the test of the startGroup / stopGroup loop for one alias
Eligible(pg, a, op) ==
    /\ pg.processes[a] # Absent
    /\ IF op = "start" THEN pg.processes[a] # "running"
                        ELSE pg.processes[a] = "running"

\* the loop of startGroup / stopGroup over the aliases `rest`, up to its
\* first `await startProcess(alias)` / `await stopProcess(alias)`
RECURSIVE GroupLoop(_, _, _, _)
GroupLoop(pg, op, rest, opening) ==
    IF rest = <<>> THEN pg
    ELSE IF Eligible(pg, Head(rest), op)
         THEN BeginRequest(pg, Head(rest), op, Tail(rest), opening)
         ELSE GroupLoop(pg, op, Tail(rest), opening)

WithoutRequest(reqs, i) == SubSeq(reqs, 1, i - 1) \o SubSeq(reqs, i + 1, Len(reqs))

\* the finally block of call i, and the loop that awaited the call going on
Finally(pg, i, opening) ==
    LET r == pg.requests[i] IN
    GroupLoop([pg EXCEPT !.actionLoading[r.alias] = FALSE,
                         !.requests = WithoutRequest(@, i)],
              r.op, r.rest, opening)

Handled(pg) == [pg EXCEPT !.last = NoEvent]

PageStep(pg) ==
    /\ page' = pg
    /\ resp' = NoResp
    /\ UNCHANGED <<backendVars, shell>>

\* the toggle button of a listed process
ToggleClicked(a, opening) ==
    /\ page.processes[a] # Absent
    /\ ~page.actionLoading[a]
    /\ Len(page.requests) < MaxRequests
    /\ PageStep(BeginRequest(Handled(page), a,
                             IF page.processes[a] = "running" THEN "stop" ELSE "start",
                             <<>>, opening))

\* the Start / Stop button of the group
GroupClicked(op, opening) ==
    /\ Len(page.requests) < MaxRequests
    /\ PageStep(GroupLoop(Handled(page), op, GroupAliases, opening))

\* the 100 ms given to the log viewer are over: the fetch is sent
ViewerOpened(i) ==
    /\ i \in DOMAIN page.requests
    /\ page.requests[i].phase = "opening"
    /\ PageStep([Handled(page) EXCEPT !.requests[i].phase = "fetch"])

\* the fetch of call i settles.  startProcess ignores the answer's status;
\* a rejected fetch, and for stopProcess an answer that is not ok, runs the
\* catch block, which awaits fetchProcesses(false)
FetchSettled(i, ok, opening) ==
    /\ i \in DOMAIN page.requests
    /\ page.requests[i].phase = "fetch"
    /\ PageStep(IF ok THEN Finally(Handled(page), i, opening)
                ELSE [Handled(page) EXCEPT !.requests[i].phase = "refetch"])

\* fetchProcesses(false) of the catch block of call i returns: the array is
\* replaced by the answer, or emptied when that fetch failed too
RefetchSettled(i, list, opening) ==
    /\ i \in DOMAIN page.requests
    /\ page.requests[i].phase = "refetch"
    /\ PageStep(Finally([Handled(page) EXCEPT !.processes = list], i, opening))

\* any other fetchProcesses call returns (mount, search, socket events)
ProcessesFetched(list) ==
    /\ list \in Lists
    /\ PageStep([Handled(page) EXCEPT !.processes = list])

\* socket.on("process-started")
OnProcessStarted(a) ==
    /\ a \in Aliases
    /\ PageStep([Handled(page) EXCEPT !.processPids[a] = TRUE])

\* socket.on("process-exited"): the pid is cleared, then
\* processes.find(...)!.status = "stopped", which throws a TypeError when
\* find returns undefined
OnProcessExited(a) ==
    /\ a \in Aliases
    /\ PageStep([page EXCEPT !.processPids[a] = FALSE,
                             !.processes[a] = IF @ = Absent THEN @ ELSE "stopped",
                             !.last = [event |-> "process-exited", alias |-> a,
                                       threw |-> page.processes[a] = Absent]])

\* socket.on("process-stopped")
OnProcessStopped(a) ==
    /\ a \in Aliases
    /\ PageStep([Handled(page) EXCEPT !.processPids[a] = FALSE])

\* ------------------------------------------------------------------ Next
Next ==
    \/ StartBackend
    \/ \E a \in Aliases : StartNotFound(a)
    \/ \E a \in Aliases : StartSpawnFailed(a)
    \/ \E a \in Aliases : StartSpawned(a)
    \/ \E s \in Sessions : OnData(s)
    \/ \E s \in Sessions : OnExit(s)
    \/ \E a \in Aliases : StopNotRunning(a)
    \/ \E a \in Aliases : StopIssueKill(a)
    \/ \E s \in Sessions : StopKillResolved(s)
    \/ \E s \in Sessions : StopKillRejected(s)

Spec == Init /\ [][Next]_vars

\* the steps that write the registry or a session's state
NextRegistry ==
    \/ StartBackend
    \/ \E a \in Aliases : StartSpawned(a)
    \/ \E s \in Sessions : OnExit(s)
    \/ \E a \in Aliases : StopIssueKill(a)
    \/ \E s \in Sessions : StopKillResolved(s)
    \/ \E s \in Sessions : StopKillRejected(s)

\* the start requests that are turned away, between any two of them
NextStart ==
    \/ NextRegistry
    \/ \E a \in Aliases : StartNotFound(a)
    \/ \E a \in Aliases : StartSpawnFailed(a)

SpecStart == Init /\ [][NextStart]_vars

\* the status query, asked between any two of them
NextStatus ==
    \/ NextRegistry
    \/ \E q \in Searches : ListProcesses(q)

SpecStatus == Init /\ [][NextStatus]_vars

\* the resize event, sent between any two of the registry-writing steps
NextResize ==
    \/ NextRegistry
    \/ \E a \in Aliases : \E d \in Sizes \cup BadSizes : ResizeIgnored(a, d)
    \/ \E a \in Aliases : \E d \in Sizes \cup BadSizes : ResizeApplied(a, d)
    \/ \E a \in Aliases : \E d \in Sizes \cup BadSizes : ResizeThrew(a, d)

SpecResize == Init /\ [][NextResize]_vars

\* every path that ends sessions: stop, DELETE, stopBackend, beforeExit
NextTerminate ==
    \/ NextRegistry
    \/ \E a \in Aliases : DeleteNotRunning(a)
    \/ \E a \in Aliases : DeleteIssueKill(a)
    \/ \E s \in Sessions : \E rejected \in BOOLEAN : DeleteKillSettled(s, rejected)
    \/ StopBackend
    \/ \E s \in Sessions : \E rejected \in BOOLEAN : ShutdownKillSettled(s, rejected)
    \/ \E x \in Servers : ServerClosed(x)
    \/ BeforeExit

SpecTerminate == Init /\ [][NextTerminate]_vars

\* two defined aliases, and every step that writes state on behalf of one
\* alias: start, stop (with either report of the kill), exit and an applied
\* resize.  A failed spawn and an ignored or throwing resize write no state.
InitBoth == InitWith([a \in AliasInputs |-> IF a \in Aliases THEN "cmd1" ELSE NoDef])

NextIsolated ==
    \/ NextRegistry
    \/ \E a \in Aliases : \E d \in Sizes : ResizeApplied(a, d)

SpecIsolated == InitBoth /\ [][NextIsolated]_vars

\* sockets connecting and disconnecting between any two steps of sessions
\* that start, produce output and exit
NextSockets ==
    \/ StartBackend
    \/ \E a \in Aliases : StartSpawned(a)
    \/ \E s \in Sessions : OnData(s)
    \/ \E s \in Sessions : OnExit(s)
    \/ \E c \in Clients : Connect(c)
    \/ \E c \in Clients : Disconnect(c)

SpecSockets == Init /\ [][NextSockets]_vars

\* one socket connecting and disconnecting between any two of the steps that
\* write the registry, stop requests included
NextOneSocket ==
    \/ NextRegistry
    \/ Connect("c1")
    \/ Disconnect("c1")

SpecOneSocket == Init /\ [][NextOneSocket]_vars

\* update requests between any two of the steps that write the registry
NextUpdate ==
    \/ NextRegistry
    \/ \E al \in Aliases : \E cmd \in CommandInputs : UpdateDefinition(al, cmd)

SpecUpdate == Init /\ [][NextUpdate]_vars

\* stopBackend between any two steps of sessions that start, exit and are
\* stopped: sessions, and suspended stop requests, outlive the socket server
NextSink ==
    \/ StartBackend
    \/ \E a \in Aliases : StartSpawned(a)
    \/ \E s \in Sessions : OnExit(s)
    \/ \E a \in Aliases : StopIssueKill(a)
    \/ \E s \in Sessions : StopKillResolved(s)
    \/ StopBackend
    \/ \E x \in Servers : ServerClosed(x)

SpecSink == Init /\ [][NextSink]_vars

\* stop requests that overlap on one session, between starts and exits
NextOverlap ==
    \/ StartBackend
    \/ \E a \in Aliases : StartSpawned(a)
    \/ \E s \in Sessions : OnExit(s)
    \/ \E a \in Aliases : StopIssueKillUpTo(a, MaxOverlap)
    \/ \E s \in Sessions : StopKillResolved(s)
    \/ \E s \in Sessions : StopKillRejected(s)

SpecOverlap == Init /\ [][NextOverlap]_vars

\* delete requests between starts and exits
NextDelete ==
    \/ StartBackend
    \/ \E a \in Aliases : StartSpawned(a)
    \/ \E s \in Sessions : OnExit(s)
    \/ \E a \in Aliases : DeleteNotRunning(a)
    \/ \E a \in Aliases : DeleteIssueKill(a)
    \/ \E s \in Sessions : \E rejected \in BOOLEAN : DeleteKillSettled(s, rejected)

SpecDelete == Init /\ [][NextDelete]_vars

\* startBackend and stopBackend called in any state of the runtime, between
\* sessions that start and exit, kills that report and servers that close
NextBackend ==
    \/ StartBackend
    \/ StartBackendExisting
    \/ StopBackend
    \/ StopBackendNoRuntime
    \/ \E a \in Aliases : StartSpawned(a)
    \/ \E s \in Sessions : OnExit(s)
    \/ \E s \in Sessions : \E rejected \in BOOLEAN : ShutdownKillSettled(s, rejected)
    \/ \E x \in Servers : ServerClosed(x)

SpecBackend == Init /\ [][NextBackend]_vars

\* the desktop shell on either platform: bootstrap and its failures, quit
\* requests, closed windows and the promises its shutdown awaits
InitShell ==
    /\ InitBackend([a \in AliasInputs |-> IF a = "a1" THEN "cmd1" ELSE NoDef])
    /\ shell \in {ShellInit(p) : p \in Platforms}
    /\ page = PageInit

NextShell ==
    \/ BootBackendStarted
    \/ BootListening
    \/ BootLoaded
    \/ \E started \in BOOLEAN : BootFailed(started)
    \/ BeforeQuit
    \/ WindowAllClosed
    \/ \E rejected \in BOOLEAN : BackendStopSettled(rejected)
    \/ FrontendClosed

SpecShell == InitShell /\ [][NextShell]_vars

\* the promises the shutdown awaits settle
SpecShellLive ==
    /\ SpecShell
    /\ WF_vars(\E rejected \in BOOLEAN : BackendStopSettled(rejected))
    /\ WF_vars(FrontendClosed)

\* one page of the frontend: clicks, the answers to its requests, and the
\* socket events it receives
NextPage ==
    \/ \E a \in Aliases : \E opening \in BOOLEAN : ToggleClicked(a, opening)
    \/ \E op \in {"start", "stop"} : \E opening \in BOOLEAN : GroupClicked(op, opening)
    \/ \E i \in 1..MaxRequests : ViewerOpened(i)
    \/ \E i \in 1..MaxRequests : \E ok \in BOOLEAN : \E opening \in BOOLEAN :
          FetchSettled(i, ok, opening)
    \/ \E i \in 1..MaxRequests : \E list \in Lists : \E opening \in BOOLEAN :
          RefetchSettled(i, list, opening)
    \/ \E list \in Lists : ProcessesFetched(list)
    \/ \E a \in Aliases : OnProcessStarted(a)
    \/ \E a \in Aliases : OnProcessExited(a)
    \/ \E a \in Aliases : OnProcessStopped(a)

SpecPage == Init /\ [][NextPage]_vars

\* the requests that write the processes table
NextCrud ==
    \/ StartBackend
    \/ \E al \in AliasInputs : \E cmd \in CommandInputs : CreateDefinition(al, cmd)
    \/ \E al \in AliasInputs : \E cmd \in CommandInputs : UpdateDefinition(al, cmd)
    \/ \E a \in Aliases : DeleteNotRunning(a)

SpecCrud == Init /\ [][NextCrud]_vars

\* The only step the program takes of its own accord is startBackend() at load
\* (isDirectRun, or the desktop shell's bootstrap).  Requests, PTY output, PTY
\* exit and the report of tree-kill come from outside: nothing obliges them
\* to happen, and the stop handler sets no timer that would.
SpecLive == Spec /\ WF_vars(StartBackend)

TypeOK ==
    /\ defs \in [AliasInputs -> Commands \cup {NoDef}]
    /\ managedProcesses \in [Aliases -> Sessions \cup {None}]
    /\ ptyState \in [Sessions -> {"unborn", "live", "exited"}]
    /\ ptyAlias \in [Sessions -> Aliases]
    /\ stopAwait \in [Sessions -> 0..MaxOverlap]
    /\ killIssued \in [Sessions -> BOOLEAN]
    /\ ptyDims \in [Sessions -> {NoSize, SpawnSize} \cup Sizes]
    /\ node \in {"up", "crashed", "exited"}
    /\ deleteAwait \in [Sessions -> 0..MaxPending]
    /\ shutdownAwait \in [Sessions -> 0..MaxPending]
    /\ ptyKilled \in [Sessions -> BOOLEAN]
    /\ signalHandlersRegistered \in BOOLEAN
    /\ Len(stopCalls) <= MaxPending
    /\ \A i \in DOMAIN stopCalls :
          /\ stopCalls[i].kills \subseteq stopCalls[i].targets
          /\ stopCalls[i].targets \subseteq Sessions
          /\ stopCalls[i].closes \subseteq Servers
          /\ ~Settled(stopCalls[i])
    /\ subscribers \subseteq Clients
    /\ \A c \in Clients : \A s \in Sessions :
          /\ inbox[c][s] \in Seq(SocketEvents)
          /\ attachedAt[c][s] \in 0..Len(trace[s])
    /\ ptyCommand \in [Sessions -> Commands \cup {NoDef}]
    /\ socketServer \in BOOLEAN /\ httpServer \in BOOLEAN /\ runtime \in BOOLEAN

\* ======================================================== the properties
LiveOf(a)        == {s \in Sessions : Live(s) /\ ptyAlias[s] = a}
TerminalCount(s) == Count(trace[s], "process-exited") + Count(trace[s], "process-stopped")
Before(tr, k, i) == \E j \in 1..(i - 1) : tr[j] = k

\* the step answers a start(a) request / is the first stretch of a stop(a) request
StartStep(a)  == resp'.req = "start" /\ resp'.alias = a
StopBegins(a) ==
    \/ resp'.req = "stop" /\ resp'.alias = a /\ resp'.sid = None
    \/ \E s \in Sessions : ptyAlias[s] = a /\ stopAwait'[s] > stopAwait[s]
\* the step is the last stretch of a stop request that awaited the kill of s
StopCompletes(s) == stopAwait'[s] < stopAwait[s]

\* C1: in every reachable state every alias has at most one session that was
\* spawned and whose exit has not been observed.
C1_AtMostOneLiveSession ==
    \A a \in Aliases : Cardinality(LiveOf(a)) <= 1

\* C2: a start(alias) request for an alias that has a registry entry is
\* rejected: the answer is an error, nothing is spawned, no event is emitted
\* and the registry still maps the alias to the original session.
C2_StartRejectedWhenRunning ==
    [][\A a \in Aliases :
          (managedProcesses[a] # None /\ StartStep(a))
              => /\ resp'.status # 200
                 /\ UNCHANGED <<managedProcesses, ptyState, trace>>]_vars

\* C3: for every session cleanup runs exactly once, however a stop request
\* and the exit callback interleave: never two terminal events, and once the
\* exit was observed and no stop is suspended exactly one terminal event was
\* emitted and the registry no longer holds the session.
C3_ExactlyOneCleanup ==
    \A s \in Sessions :
        /\ TerminalCount(s) <= 1
        /\ (ptyState[s] = "exited" /\ stopAwait[s] = 0)
              => /\ TerminalCount(s) = 1
                 /\ managedProcesses[ptyAlias[s]] # s

\* C4: every live session is the value of the registry entry of its own
\* alias (so an alias reported stopped has no running process).
C4_LiveSessionRegistered ==
    \A s \in Sessions : Live(s) => managedProcesses[ptyAlias[s]] = s

\* C5: stop is idempotent: when a stop(X) request follows directly on an
\* answered stop(X) request, neither answer is an error and the second
\* request issues no kill, emits no event and leaves the registry unchanged.
C5_StopIdempotent ==
    [][\A a \in Aliases :
          (resp.req = "stop" /\ resp.alias = a /\ StopBegins(a))
              => /\ resp.status = 200
                 /\ resp'.req = "stop" /\ resp'.status = 200
                 /\ UNCHANGED <<managedProcesses, trace, stopAwait, killIssued>>]_vars

\* C6: exit-then-restart round trip: the step in which a session's exit is
\* observed leaves its alias reported stopped, and a start request for an
\* alias one of whose sessions has exited is never turned away because of the
\* registry: unless the definition is missing (404) or spawn threw (500) it is
\* answered 200 and the alias is mapped to the freshly spawned, live session.
C6_ExitThenRestart ==
    [][\A s \in Sessions :
          /\ (Live(s) /\ ptyState'[s] = "exited")
                => StatusOf(managedProcesses', ptyAlias[s]) = "stopped"
          /\ (ptyState[s] = "exited" /\ StartStep(ptyAlias[s])
                 /\ resp'.status \notin {404, 500})
                => /\ resp'.status = 200
                   /\ resp'.sid # None
                   /\ ptyState[resp'.sid] = "unborn"
                   /\ ptyState'[resp'.sid] = "live"
                   /\ managedProcesses'[ptyAlias[s]] = resp'.sid
                   /\ StatusOf(managedProcesses', ptyAlias[s]) = "running"]_vars

\* a session exited, its alias was reported stopped, and the start that was
\* just answered registered a later session for the same alias
C6_Witness ==
    \E s, n \in Sessions :
        /\ ptyState[s] = "exited" /\ ptyState[n] = "live"
        /\ ptyAlias[n] = ptyAlias[s]
        /\ ~killIssued[s]
        /\ resp = Answer("start", ptyAlias[s], n, 200)
        /\ managedProcesses[ptyAlias[s]] = n

\* C7: within one run no process-data event is emitted after the run's
\* terminal event (process-exited or process-stopped).
C7_NoDataAfterTerminal ==
    \A s \in Sessions : \A i \in 1..Len(trace[s]) :
        trace[s][i] = "process-data"
            => ~ \E j \in 1..(i - 1) : trace[s][j] \in Terminal

\* C8: within one run process-started is emitted before every process-data
\* event, and only after the session was put into the registry.
C8_StartedFirst ==
    \A s \in Sessions : \A i \in 1..Len(trace[s]) :
        /\ trace[s][i] = "process-data" => Before(trace[s], "process-started", i)
        /\ trace[s][i] = "process-started" => Before(trace[s], "set", i)

\* a run whose started event was followed by output
C8_Witness ==
    \E s \in Sessions : \E i \in 1..Len(trace[s]) :
        /\ trace[s][i] = "process-data"
        /\ Before(trace[s], "process-started", i)

\* C9: when a stop request that awaited a kill completes, whatever the
\* outcome of the kill, the alias has no registry entry.
C9_StopAlwaysCleansUp ==
    [][\A s \in Sessions :
          StopCompletes(s) => managedProcesses'[ptyAlias[s]] = None]_vars

\* C10: every answer to a stop request is a success answer.
C10_StopNeverErrors ==
    resp.req = "stop" => resp.status = 200

\* everything but the answer of the step
backendState == <<defs, managedProcesses, ptyState, ptyAlias, stopAwait,
                  socketServer, httpServer, runtime, trace, killIssued,
                  resizeVars, termVars,
                   sockVars, ptyCommand, uiVars>>

\* C12: a start request for an alias without a definition is answered 404
\* and changes nothing: no session is spawned, the registry, the events and
\* every other part of the state stay as they were.
C12_StartUnknownAlias ==
    [][\A a \in Aliases :
          (StartStep(a) /\ defs[a] = NoDef)
              => /\ resp' = Answer("start", a, None, 404)
                 /\ UNCHANGED backendState]_vars

\* a start of an undefined alias was just answered while another alias runs
C12_Witness ==
    \E a, b \in Aliases :
        /\ defs[a] = NoDef
        /\ resp = Answer("start", a, None, 404)
        /\ managedProcesses[b] # None /\ Live(managedProcesses[b])

\* C13: when spawn throws inside a start request (the alias is defined and
\* the step spawned no session) the answer is an error, the registry is as it
\* was before the request (no entry, or the earlier entry) and no event is
\* emitted.
C13_SpawnFailure ==
    [][\A a \in Aliases :
          (StartStep(a) /\ defs[a] # NoDef /\ ptyState' = ptyState)
              => /\ resp'.status = 500
                 /\ UNCHANGED <<managedProcesses, trace>>]_vars

\* spawn failed for an alias that had an entry
C13_Witness ==
    \E a \in Aliases :
        /\ resp = Answer("start", a, None, 500)
        /\ managedProcesses[a] # None

\* C14: listing the processes changes nothing, and every listed alias is
\* reported exactly once, as running if and only if the registry holds an
\* entry for it at that moment.
C14_StatusPureQuery ==
    [][resp'.req = "list"
          => /\ UNCHANGED backendState
             /\ \A a \in Aliases :
                   /\ <<a, "running">> \in resp'.body
                         <=> (<<a, "stopped">> \notin resp'.body
                                /\ \E st \in {"running", "stopped"} :
                                       <<a, st>> \in resp'.body)
                   /\ (defs[a] # NoDef /\ resp'.alias \in {NoSearch, a})
                         => /\ <<a, "running">> \in resp'.body
                                  <=> managedProcesses[a] # None
                            /\ <<a, "stopped">> \in resp'.body
                                  <=> managedProcesses[a] = None]_vars

\* an alias is listed as running again after an earlier session of it exited
C14_Witness ==
    \E a \in Aliases : \E s \in Sessions :
        /\ resp.req = "list" /\ <<a, "running">> \in resp.body
        /\ ptyAlias[s] = a /\ ptyState[s] = "exited"

\* the step handled a pty-resize event for alias a
ResizeStep(a) == resp'.req = "resize" /\ resp'.alias = a

\* C15: a resize for an alias without a registry entry is ignored: nothing is
\* reported as an error, no session's size changes, the registry and all
\* other state stay as they were.
C15_ResizeIdleIgnored ==
    [][\A a \in Aliases :
          (ResizeStep(a) /\ managedProcesses[a] = None)
              => /\ ~resp'.logged
                 /\ UNCHANGED backendState]_vars

\* a resize for an idle alias was handled while a session of another size runs
C15_Witness ==
    \E a \in Aliases : \E s \in Sessions :
        /\ resp.req = "resize" /\ resp.alias = a /\ resp.sid = None /\ ~resp.logged
        /\ managedProcesses[a] = None
        /\ Live(s) /\ ptyDims[s] \notin {NoSize, SpawnSize}

\* C16: when pty.resize throws for a registered session (the handler reports
\* the error with console.error) the exception goes no further: the Node process survives, the registry, the
\* sizes and every session are unchanged, and both servers keep serving.
C16_ResizeThrowCaught ==
    [][\A a \in Aliases :
          (ResizeStep(a) /\ managedProcesses[a] # None /\ resp'.logged)
              => /\ node' = "up"
                 /\ UNCHANGED backendState
                 /\ socketServer' /\ (httpServer' = httpServer)]_vars

\* a resize threw for a registered session, and the backend went on to
\* answer a later request
C16_Witness ==
    \E s \in Sessions :
        /\ resp.req = "resize" /\ resp.alias = ptyAlias[s] /\ resp.sid = s /\ resp.logged
        /\ Live(s) /\ managedProcesses[ptyAlias[s]] = s
        /\ NodeUp /\ httpServer

\* C17: every path that ends a session signals the whole process tree
\* (tree-kill), never the shell alone (pty.kill), and once a stop request was
\* answered with success no process of the session is left: its exit has been
\* observed.
C17_WholeTreeGone ==
    \A s \in Sessions :
        /\ ~ptyKilled[s]
        /\ (resp = Answer("stop", ptyAlias[s], s, 200)) => ptyState[s] = "exited"

\* the step takes the entry of session s out of the registry on behalf of a
\* caller (stop, DELETE, stopBackend, beforeExit), not of an exit callback
RemovedByCaller(s) ==
    /\ managedProcesses[ptyAlias[s]] = s
    /\ managedProcesses'[ptyAlias[s]] = None
    /\ ptyState' = ptyState

\* C18: whenever a caller-initiated path removes a session's registry entry,
\* the kill of that session has been issued before the removal is visible.
C18_KillBeforeRemoval ==
    [][\A s \in Sessions :
          RemovedByCaller(s) => (killIssued[s] \/ ptyKilled'[s])]_vars

\* C19: no registry entry dangles: a session whose exit callback has run is
\* the value of no registry entry, in every state from the one right after
\* the callback on (so the removal is part of the callback's own step).
C19_NoDanglingEntry ==
    \A s \in Sessions : \A a \in Aliases :
        ptyState[s] = "exited" => managedProcesses[a] # s

\* a session that was registered exited on its own and its entry is gone
C19_Witness ==
    \E s \in Sessions :
        /\ ptyState[s] = "exited" /\ ~killIssued[s]
        /\ Before(trace[s], "set", Len(trace[s]))
        /\ trace[s][Len(trace[s])] = "delete"
        /\ managedProcesses[ptyAlias[s]] = None

\* what belongs to a session: its liveness, events, size and pending stops
SessionView(s) ==
    <<ptyState[s], trace[s], ptyDims[s], stopAwait[s], killIssued[s]>>
SessionsOf(a) == {s \in Sessions : ptyState[s] # "unborn" /\ ptyAlias[s] = a}

\* the aliases whose registry entry, or one of whose sessions, the step changed
Touched ==
    {a \in Aliases : managedProcesses'[a] # managedProcesses[a]}
        \cup {ptyAlias'[s] : s \in {x \in Sessions : SessionView(x)' # SessionView(x)}}

\* C20: sessions are isolated: a step changes what belongs to at most one
\* alias, a step handling a request for alias X changes nothing that belongs
\* to another alias, and no step ends the Node process or closes a server.
C20_Isolation ==
    [][/\ Cardinality(Touched) <= 1
       /\ resp'.req \in {"start", "stop", "resize"} => Touched \subseteq {resp'.alias}
       /\ node' = "up"
       /\ (httpServer => httpServer') /\ (socketServer => socketServer')]_vars

\* the kill of a session of one alias just failed, after an earlier session
\* of it exited, while a resized session of the other alias is live and
\* registered
C20_Witness ==
    \E x, y \in Aliases :
        /\ x # y
        /\ resp.req = "stop" /\ resp.alias = x /\ resp.status = 500
        /\ managedProcesses[y] # None /\ Live(managedProcesses[y])
        /\ ptyDims[managedProcesses[y]] # SpawnSize
        /\ \E s \in SessionsOf(x) : ptyState[s] = "exited"

\* what was emitted for session s since the socket of client c connected
After(c, s) ==
    SubSeq(Emitted(trace[s]), attachedAt[c][s] + 1, Len(Emitted(trace[s])))
IsSuffix(x, y) == \E k \in 0..Len(y) : SubSeq(y, k + 1, Len(y)) = x

C22_SubscribersChangeNothing ==
    [][subscribers' # subscribers
          => UNCHANGED <<defs, managedProcesses, ptyState, ptyAlias, stopAwait,
                         socketServer, httpServer, runtime, trace, killIssued,
                         resizeVars, termVars, ptyCommand, uiVars>>]_vars

\* a socket connected after one session had exited and while a stop request
\* was suspended on the kill of another, which is still live and registered
C22_Witness ==
    \E s, t \in Sessions :
        /\ subscribers = {"c1"}
        /\ ptyState[t] = "exited" /\ attachedAt["c1"][t] = 2
        /\ Live(s) /\ managedProcesses[ptyAlias[s]] = s
        /\ stopAwait[s] > 0 /\ attachedAt["c1"][s] = 1
        /\ inbox["c1"] = NoInbox

Whitespace == {" ", "\t"}

\* C24: every stored definition has a non-empty alias that contains no
\* whitespace character (each alias is the key of at most one row), and a
\* create request that is not answered 201 leaves the table unchanged.
C24_AliasesWellFormed ==
    /\ \A al \in AliasInputs :
          defs[al] # NoDef
              => /\ al # ""
                 /\ \A ch \in Whitespace : ~Includes(al, ch)
    /\ (resp.req = "create" /\ resp.status = 201) => defs[resp.alias] # NoDef

\* C25: while a stop request is suspended on the kill of a session of alias
\* X, every request for another alias Y can be handled: a start (when Y is
\* defined and a session can be spawned), a stop (answered at once when Y is
\* idle, suspended on and resumed from Y's own kill when it runs), a resize
\* and the status query; and the data and exit callbacks of Y's sessions run.
C25_NoBlocking ==
    \A s \in Sessions :
        (stopAwait[s] > 0 /\ node = "up" /\ runtime)
            => \A y \in Aliases \ {ptyAlias[s]} :
                  /\ (defs[y] # NoDef /\ NextSid <= MaxSessions) => ENABLED StartSpawned(y)
                  /\ defs[y] # NoDef => ENABLED StartSpawnFailed(y)
                  /\ managedProcesses[y] = None => ENABLED StopNotRunning(y)
                  /\ (managedProcesses[y] # None /\ stopAwait[managedProcesses[y]] < MaxPending)
                        => ENABLED StopIssueKill(y)
                  /\ managedProcesses[y] # None
                        => \A d \in Sizes : ENABLED ResizeApplied(y, d)
                  /\ ENABLED ListProcesses(NoSearch)
                  /\ \A t \in Sessions :
                        /\ (ptyAlias[t] = y /\ Live(t)) => (ENABLED OnData(t) /\ ENABLED OnExit(t))
                        /\ (ptyAlias[t] = y /\ stopAwait[t] > 0)
                              => (ENABLED StopKillResolved(t) /\ ENABLED StopKillRejected(t))

\* a start request for one alias was answered, and its session resized,
\* while a stop request for the other alias was suspended on its kill
C25_Witness ==
    \E s, t \in Sessions :
        /\ stopAwait[s] > 0 /\ Live(s)
        /\ ptyAlias[t] # ptyAlias[s] /\ Live(t)
        /\ Len(trace[s]) = 3 /\ killIssued[s]
        /\ t > s
        /\ resp.req = "resize" /\ resp.sid = t /\ ptyDims[t] # SpawnSize

\* C26: the command is read at start time only: an update request changes
\* no registry entry, no session (its command line included) and emits no
\* event; a session keeps its command line for as long as it lives; and a
\* start spawns the command the definition holds at that moment.
C26_CommandReadAtStart ==
    [][/\ resp'.req = "update"
            => UNCHANGED <<managedProcesses, ptyState, ptyAlias, ptyCommand, trace,
                           stopAwait, killIssued, resizeVars, termVars, sockVars>>
       /\ \A s \in Sessions :
            /\ ptyState[s] # "unborn" => ptyCommand'[s] = ptyCommand[s]
            /\ (ptyState[s] = "unborn" /\ ptyState'[s] = "live")
                  => /\ StartStep(ptyAlias'[s])
                     /\ ptyCommand'[s] = defs[ptyAlias'[s]]
                     /\ ptyCommand'[s] \in Commands]_vars

\* a session spawned with the first command exited, the next start spawned
\* the updated command, and a further update just now left that session as
\* it is
C26_Witness ==
    \E s, t \in Sessions :
        /\ ptyAlias[s] = ptyAlias[t]
        /\ ptyState[s] = "exited" /\ ptyCommand[s] = "cmd1"
        /\ Live(t) /\ ptyCommand[t] = "cmd2" /\ managedProcesses[ptyAlias[t]] = t
        /\ resp = Answer("update", ptyAlias[t], None, 200)
        /\ defs[ptyAlias[t]] = "cmd1"

\* C27 as stated: after a resize (cols, rows) for an alias with a registry
\* entry was handled, the size of its session is exactly (cols, rows).
C27_ResizeAlwaysApplied ==
    (resp.req = "resize" /\ resp.sid # None) => ptyDims[resp.sid] = resp.size

\* C27: a resize (cols, rows) for an alias with a registry entry is handled
\* in the step that receives it, never deferred or queued: when pty.resize
\* returned (nothing was logged) the size of the session is exactly
\* (cols, rows) right after that step, and the session is still the entry of
\* the alias.
C27_ResizeAppliedUnlessThrown ==
    (resp.req = "resize" /\ resp.sid # None /\ ~resp.logged)
        => /\ ptyDims[resp.sid] = resp.size
           /\ managedProcesses[resp.alias] = resp.sid

\* with no socket of a viewer connected, a live session was just resized to
\* a size other than the one it was spawned with
C27_Witness ==
    /\ resp.req = "resize" /\ resp.sid # None /\ ~resp.logged
    /\ resp.size = <<120, 40>> /\ ptyDims[resp.sid] = <<120, 40>>
    /\ subscribers = {} /\ Live(resp.sid)

\* the sessions spawned by the step
Born == {s \in Sessions : ptyState[s] = "unborn" /\ ptyState'[s] # "unborn"}

\* C28: sessions are created by start requests only: a step spawns at most
\* one session, and only as a start request that is answered 200 for that
\* session; a start request answered with an error spawned nothing and left
\* the registry alone (no retry); an alias gets a registry entry only in a
\* start step for it; and the step in which a session's exit is observed
\* spawns nothing and leaves the alias without an entry.
C28_OnlyStartSpawns ==
    [][/\ Cardinality(Born) <= 1
       /\ \A s \in Born :
             resp'.req = "start" /\ resp'.status = 200 /\ resp'.sid = s
                 /\ resp'.alias = ptyAlias'[s]
       /\ (resp'.req = "start" /\ resp'.status # 200)
             => UNCHANGED <<managedProcesses, ptyState, trace>>
       /\ \A a \in Aliases :
             (managedProcesses'[a] # None /\ managedProcesses'[a] # managedProcesses[a])
                 => (StartStep(a) /\ managedProcesses'[a] \in Born)
       /\ \A s \in Sessions :
             (Live(s) /\ ptyState'[s] = "exited")
                 => (Born = {} /\ managedProcesses'[ptyAlias[s]] = None)]_vars

\* a session exited on its own, the next start of its alias failed in spawn,
\* and the alias is still idle although a session could be spawned
C28_Witness ==
    \E s \in Sessions :
        /\ ptyState[s] = "exited" /\ ~killIssued[s]
        /\ resp = Answer("start", ptyAlias[s], None, 500)
        /\ managedProcesses[ptyAlias[s]] = None
        /\ Unborn # {}

\* C29: cleanup does not depend on the socket server: when a session's exit
\* is observed, or a stop request resumes after its kill resolved, while
\* there is no socket server, the event is dropped, nothing is logged, the
\* Node process goes on, and the registry entry of the alias is removed in
\* that same step.
C29_CleanupWithoutSink ==
    [][\A s \in Sessions :
          /\ (Live(s) /\ ptyState'[s] = "exited" /\ ~socketServer)
                => /\ trace'[s] = trace[s] \o <<"delete">>
                   /\ managedProcesses'[ptyAlias[s]] = None
                   /\ node' = "up" /\ ~resp'.logged
          /\ (StopCompletes(s) /\ resp'.status = 200 /\ ~socketServer)
                => /\ trace'[s] = trace[s] \o <<"delete">>
                   /\ managedProcesses'[ptyAlias[s]] = None
                   /\ node' = "up" /\ ~resp'.logged]_vars

\* after stopBackend closed the socket server a session exited and then the
\* stop request that was suspended on its kill completed: no event was
\* emitted for either, and the alias has no entry
C29_Witness ==
    \E s \in Sessions :
        /\ ~socketServer
        /\ ptyState[s] = "exited"
        /\ TerminalCount(s) = 0
        /\ Count(trace[s], "delete") = 2
        /\ resp = Answer("stop", ptyAlias[s], s, 200)
        /\ managedProcesses[ptyAlias[s]] = None

\* C30: a stop request removes only the registry entry of the session it
\* looked up: when the session s whose kill a stop awaited has exited and
\* its alias holds a later session, the step in which that stop completes
\* leaves the entry as it is and emits no process-stopped for the alias.
C30_StopRemovesOnlyOwn ==
    [][\A s \in Sessions :
          (StopCompletes(s) /\ ptyState[s] = "exited"
              /\ managedProcesses[ptyAlias[s]] \notin {None, s})
              => /\ managedProcesses'[ptyAlias[s]] = managedProcesses[ptyAlias[s]]
                 /\ Count(trace'[s], "process-stopped") = Count(trace[s], "process-stopped")]_vars

\* C31: the exit callback of a session removes only that session's own
\* registry entry: when a stop request for the session has been answered and
\* its alias holds another, newer session by the time the exit is observed,
\* that step leaves the entry as it is (so the alias is still reported
\* running).
C31_ExitRemovesOnlyOwn ==
    [][\A s \in Sessions :
          (Live(s) /\ ptyState'[s] = "exited"
              /\ managedProcesses[ptyAlias[s]] \notin {None, s}
              /\ stopAwait[s] = 0 /\ Count(trace[s], "process-stopped") > 0)
              => /\ managedProcesses'[ptyAlias[s]] = managedProcesses[ptyAlias[s]]
                 /\ StatusOf(managedProcesses', ptyAlias[s]) = "running"]_vars

\* C32: for every session at most one kill is issued by stop requests (never
\* two stop handlers are suspended, each on a kill of its own, for the same
\* session) and at most one process-stopped event is emitted.
C32_OneKillOneStopped ==
    \A s \in Sessions :
        /\ stopAwait[s] <= 1
        /\ Count(trace[s], "process-stopped") <= 1

\* no handler is suspended on a kill
Quiescent ==
    \A s \in Sessions : stopAwait[s] = 0 /\ deleteAwait[s] = 0 /\ shutdownAwait[s] = 0

\* C33: right after a delete request was answered with success the alias has
\* no definition, no registry entry and no live session that was never
\* signalled (a session started while the request was suspended included);
\* and whenever no handler is suspended every alias in the registry has a
\* definition.
C33_DeleteLeavesNothing ==
    /\ (resp.req = "delete" /\ resp.status = 200)
          => /\ defs[resp.alias] = NoDef
             /\ managedProcesses[resp.alias] = None
             /\ \A s \in Sessions :
                   (Live(s) /\ ptyAlias[s] = resp.alias) => killIssued[s]
    /\ Quiescent => \A a \in Aliases : managedProcesses[a] # None => defs[a] # NoDef

C35_StopBackendCompleted ==
    resp.req \in {"stopBackend", "stopBackend-settled"}
        => /\ \A s \in resp.body : killIssued[s] /\ s \notin Registered(managedProcesses)
           /\ resp.closed = Servers

C37_OneRequestPerAlias ==
    \A a \in Aliases :
        LET calls    == {i \in DOMAIN page.requests : page.requests[i].alias = a}
            inFlight == {i \in calls : page.requests[i].phase = "fetch"}
        IN /\ Cardinality(inFlight) <= 1
           /\ inFlight # {} => page.actionLoading[a]
           /\ calls = {} => ~page.actionLoading[a]

\* C38: the process-exited handler does not throw, whatever the alias; when
\* the alias is in the displayed list its status has become stopped and its
\* pid is cleared.
C38_ExitedHandled ==
    page.last.event = "process-exited"
        => /\ ~page.last.threw
           /\ page.processes[page.last.alias] # Absent
                 => /\ page.processes[page.last.alias] = "stopped"
                    /\ ~page.processPids[page.last.alias]

\* C11: every stop request that is suspended on the kill of a session
\* eventually completes, and the alias no longer maps to that session, whether
\* or not the kill ever reports and the process ever exits.
C11_StopEventuallyCompletes ==
    \A s \in Sessions :
        (stopAwait[s] > 0)
            ~> (stopAwait[s] = 0 /\ managedProcesses[ptyAlias[s]] # s)
====
